---- MODULE Spec2Model ----
(***************************************************************************)
(* Model of the VK message scheduler: the HTTP handlers of main_server.py  *)
(* (schedule_message, get_scheduled_tasks, delete_scheduled_task), the     *)
(* job function schedule_vk_message_job of scheduler.py, and the parts of  *)
(* APScheduler 3.x the handlers drive (AsyncIOScheduler over a persistent  *)
(* SQLAlchemyJobStore with an AsyncIOExecutor, 'date' triggers).           *)
(*                                                                         *)
(* Time is in whole seconds.  The job store is the only durable state;     *)
(* everything else is lost when the process stops.                         *)
(***************************************************************************)
EXTENDS Integers, Sequences, FiniteSets

\* ---------------------------------------------------------------- bounds
MaxJobs == 2        \* job ids that uuid4 can hand out
MaxLifespans == 3   \* lifespans of the application open in one process

\* ------------------------------------------------------ program constants
LeadSeconds == 2            \* timedelta(seconds=2)
MisfireGraceTime == 60      \* misfire_grace_time=60 of add_job
MaxInstances == 5           \* job_defaults['max_instances']
PreviewLen == 50            \* len(message_preview) > 50
MaxMessageLen == 4096       \* Field(max_length=4096)

\* The clock ticks long enough for a job accepted at 0 or 1 with the least
\* lead time to fall due, and requests ask for up to that many seconds ahead.
MaxTicks == LeadSeconds + 2
MaxLead == LeadSeconds + 2
\* A long delay (the event loop blocked, the process down) lasts as long as
\* the grace time, so that a run is late by exactly, less or more than it.
LongDelay == MisfireGraceTime
Delays == {0, 1}

JobIds == 1..MaxJobs
NoJob == MaxJobs + 1     \* stands for: no job id
Accounts == {1, 2}

\* Texts are sequences of characters; Text(n) is a text of n characters.
Text(n) == [i \in 1..n |-> "x"]
Ellipsis == <<".", ".", ".">>
Hello == Text(5)
Empty == Text(0)
TooLong == Text(MaxMessageLen + 1)
Digits == {"0", "1", "2", "3", "4", "5", "6", "7", "8", "9"}
Offsets == {0, 10800}

VARIABLES
    now,            \* datetime.now(timezone.utc), seconds
    timedeltaBound, \* does the global name timedelta resolve in main_server
    running,        \* get_scheduler() is a scheduler and it is running
    store,          \* SQLAlchemyJobStore: the stored jobs (durable)
    tasks,          \* event-loop tasks created by the executor, not yet started
    sending,        \* job ids suspended in await send_vk_message(...)
    issued,         \* job id -> number of successful responses carrying it
    calls,          \* job id -> invocations of schedule_vk_message_job
    events,         \* job id -> scheduler events dispatched to job_listener
    result,         \* job id -> what the job function logged for it
    removed,        \* job ids removed from the store by delete_scheduled_task
    pendingAtStop,  \* while down: ids stored and not yet due when it stopped
    dueAtStart,     \* ids of those that were stored and due at the last start
    vault,          \* account -> the VK token of its accounts row
    sentWith,       \* job id -> the token send_vk_message was called with
    accounts,       \* the rows of table accounts: id, client_secret, vk_user_id
    serving,        \* the process is up and answers requests
    scheduler,      \* the global scheduler of scheduler.py (0: None)
    instances,      \* the AsyncIOScheduler objects made in this process
    sched,          \* the local sched of each open lifespan
    vkCall,         \* a call of send_vk_message: its arguments, what VK does, its end
    response        \* the HTTP response sent in the step just taken

vars == <<now, timedeltaBound, running, store, tasks, sending, issued, calls,
          events, result, removed, pendingAtStop, dueAtStart, vault, sentWith,
          accounts, serving, scheduler, instances, sched, vkCall, response>>

\* The process and its scheduler objects
lifecycle == <<serving, scheduler, instances, sched>>
ProcessIs(p) ==
    /\ serving = p.serving
    /\ scheduler = p.scheduler
    /\ instances = p.instances
    /\ sched = p.sched
ProcessBecomes(p) ==
    /\ serving' = p.serving
    /\ scheduler' = p.scheduler
    /\ instances' = p.instances
    /\ sched' = p.sched

\* ------------------------------------------------------------- the clock
\* Instants the bounded clock can take: a few ticks after each long delay.
ClockValues == {a + LongDelay * b : a \in 0..MaxTicks, b \in Delays}

\* An HTTP response: the request it answers, its status, the job id and the
\* task list it carries, and what the handler logged about the job.
Resp(op, code, id, body) ==
    [op |-> op, code |-> code, job_id |-> id, body |-> body, log |-> "none"]

\* No request was answered in the step just taken.
NoResponse == Resp("none", 0, NoJob, << >>)

Bump(f, j) == [f EXCEPT ![j] = @ + 1]

StoredIds(st) == {job.id : job \in st}

\* scheduler.get_job(job_id): the stored job, or None (here: the empty set).
get_job(st, id) == {job \in st : job.id = id}

\* Mutant: the job store returns the jobs in any order.
SortedOrders_any(S) ==
    {q \in [1..Cardinality(S) -> S] :
        \A i, k \in 1..Cardinality(S) : i # k => q[i] # q[k]}

\* All orders of the jobs of S by ascending next_run_time (ORDER BY
\* next_run_time of the job store; the order of equal times is not fixed).
SortedOrders(S) ==
    {q \in [1..Cardinality(S) -> S] :
        /\ \A i, k \in 1..Cardinality(S) : i # k => q[i] # q[k]
        /\ \A i, k \in 1..Cardinality(S) : i < k => q[i].run_date <= q[k].run_date}

\* ------------------------------------------------- models.ScheduleRequest
\* re.fullmatch(r"-?\d+", v)
check_recipient_id(v) ==
    LET digits == IF Len(v) > 0 /\ v[1] = "-" THEN Tail(v) ELSE v
    IN  /\ Len(digits) >= 1
        /\ \A i \in 1..Len(digits) : digits[i] \in Digits

\* fromisoformat parses, and the result is timezone-aware
check_datetime_format(v) == v.kind = "aware"

\* Mutant: the request model validates nothing.
ScheduleRequestValid_unchecked(req) == TRUE

ScheduleRequestValid(req) ==
    /\ check_recipient_id(req.recipient_id)
    /\ Len(req.message) >= 1
    /\ Len(req.message) <= MaxMessageLen
    /\ check_datetime_format(req.scheduled_at)

\* datetime.fromisoformat(...).astimezone(timezone.utc), in seconds
ToUtc(v) == v.wall - v.offset

Aware(t, off) == [kind |-> "aware", wall |-> t + off, offset |-> off]

\* The requests a client sends at instant t: well-formed ones asking for a
\* time from one second ago to MaxLead seconds ahead, and one request for
\* each way of being malformed.
SubmitRequests(t) ==
    LET good == [recipient_id |-> <<"1">>, message |-> Hello,
                 scheduled_at |-> Aware(t + MaxLead, 0)]
    IN  {[good EXCEPT !.scheduled_at = Aware(t + d, 0)] : d \in (0 - 1)..MaxLead}
        \cup {[good EXCEPT !.scheduled_at = Aware(t + MaxLead, off)] : off \in Offsets}
        \cup {[good EXCEPT !.recipient_id = <<"a">>],
              [good EXCEPT !.recipient_id = <<"1", "a">>],
              [good EXCEPT !.recipient_id = <<"-">>],
              [good EXCEPT !.recipient_id = << >>],
              [good EXCEPT !.message = Empty],
              [good EXCEPT !.message = TooLong],
              [good EXCEPT !.scheduled_at = [kind |-> "naive", wall |-> t + MaxLead, offset |-> 0]],
              [good EXCEPT !.scheduled_at = [kind |-> "malformed", wall |-> 0, offset |-> 0]]}

\* Mutant: the generator can repeat an id.
uuid4_repeats == JobIds

\* str(uuid.uuid4()): an id never generated before.
uuid4 == {j \in JobIds : issued[j] = 0}

\* run_date_dt <= datetime.now(timezone.utc) + timedelta(seconds=2)
TooSoon(run_date, t) == run_date <= t + LeadSeconds

NewJob(id, a, req, run_date) ==
    [id |-> id, account_id |-> a, recipient_id |-> req.recipient_id,
     message |-> req.message, run_date |-> run_date,
     misfire_grace_time |-> MisfireGraceTime]

\* What schedule_message answers before it generates a job id: 0 to go on,
\* else the status of the error.  Evaluating timedelta raises NameError when
\* the name is unbound; only ValueError is caught there, so the general
\* exception handler answers 500.
LeadTimeCheck(req) ==
    IF ~timedeltaBound THEN 500
    ELSE IF TooSoon(ToUtc(req.scheduled_at), now) THEN 400
    ELSE 0

\* Mutant: replace_existing=True.
add_job_replace(st, job) == (st \ get_job(st, job.id)) \cup {job}

\* sched.add_job(..., id=job_id, replace_existing=False, ...): the rows of
\* the job store afterwards; a row with that id makes it raise
\* ConflictingIdError and the store is left as it was.
add_job(st, job) == IF job.id \in StoredIds(st) THEN st ELSE st \cup {job}

\* Mutant: the row is written although add_job raised.
add_job_failed_partial(st, job) == st \cup {job}

\* The rows of the job store after an add_job that raised an error of the
\* store: the session is rolled back, nothing is written.
add_job_failed(st, job) == st

\* ------------------------------------------------ get_scheduled_tasks
\* Mutant: a message of exactly 50 characters is cut as well.
Preview_from_50(message) ==
    IF Len(message) >= PreviewLen
    THEN SubSeq(message, 1, PreviewLen) \o Ellipsis
    ELSE message

\* message_preview: the message, cut to 50 characters plus "..." if longer
Preview(message) ==
    IF Len(message) > PreviewLen
    THEN SubSeq(message, 1, PreviewLen) \o Ellipsis
    ELSE message

\* next_run.isoformat(timespec='milliseconds').replace('+00:00', 'Z')
IsoMillis(t) == [ms |-> t * 1000, zone |-> "Z"]

TaskInfo(job) ==
    [job_id |-> job.id, recipient_id |-> job.recipient_id,
     message_preview |-> Preview(job.message),
     next_run_time_iso |-> IsoMillis(job.run_date), status |-> "PENDING"]

\* Mutant: the jobs are not filtered by account.
OwnJobs_unfiltered(st, a) == st

\* The jobs of sched.get_jobs() that get_scheduled_tasks keeps for account a
OwnJobs(st, a) == {job \in st : job.account_id = a}

\* The task lists get_scheduled_tasks can answer account a with
ListTasks(st, a) ==
    {[i \in 1..Len(q) |-> TaskInfo(q[i])] : q \in SortedOrders(OwnJobs(st, a))}

ListedIds(body) == {body[i].job_id : i \in 1..Len(body)}

\* --------------------------------------------- delete_scheduled_task
\* Mutant: remove_job is called without the check for None.
DeleteRaises_unchecked(st, a, id) ==
    IF get_job(st, id) = {} THEN "JobLookupError"
    ELSE IF \E job \in get_job(st, id) : job.account_id # a
    THEN "HTTPException403" ELSE "none"

\* The exception raised inside the try block of delete_scheduled_task
DeleteRaises(st, a, id) ==
    IF \E job \in get_job(st, id) : job.account_id # a
    THEN "HTTPException403" ELSE "none"

\* except Exception as e: raise HTTPException(500): HTTPException is an
\* Exception, so the 403 raised in the try block is caught here as well.
DeleteStatus(exc) == IF exc = "none" THEN 204 ELSE 500

\* What delete_scheduled_task logs about the job
DeleteLog(st, id, exc) ==
    IF exc # "none" THEN "error"
    ELSE IF get_job(st, id) # {} THEN "removed" ELSE "non-existent"

\* Mutant: the job is left in the store.
remove_job_keeps(st, id) == st

\* sched.remove_job(job_id)
remove_job(st, id) == st \ get_job(st, id)

\* ----------------------------------------------------- the scheduler
NoTime == 0 - 1

\* Mutant: the trigger fires again.
get_next_fire_time_again(job, previous_fire_time) == job.run_date

\* trigger='date': the trigger fires once, at run_date
get_next_fire_time(job, previous_fire_time) ==
    IF previous_fire_time = NoTime THEN job.run_date ELSE NoTime

\* Mutant: every stored job counts as due.
DueJobs_all(st, t) == st

\* jobstore.get_due_jobs(now): next_run_time <= now
DueJobs(st, t) == {job \in st : job.run_date <= t}

\* executor._instances[job.id]: the runs of that job id in flight
Instances(id) ==
    Cardinality({i \in 1..Len(tasks) : tasks[i].id = id})
        + (IF id \in sending THEN 1 ELSE 0)

\* Mutant: no grace time is applied.
Misfired_never(job, t) == FALSE

\* run_coroutine_job: difference = now - run_time; difference > grace
Misfired(job, t) == t - job.run_date > job.misfire_grace_time

\* Mutant: the token is the one the account had when it was first linked.
get_decrypted_vk_token_first(v, a) == {"vk1", "None"}

\* security.get_decrypted_vk_token(account_id): the token of the accounts
\* row as it is now, or None (no row, sqlite3.Error, token does not decrypt)
get_decrypted_vk_token(v, a) == {v[a], "None"}

\* The tokens VK accepts; an account is first linked with "vk1".
Tokens == {"vk1", "vk2"}

Outcomes == {"delivered", "rejected", "transport", "exception"}

\* Mutant: the event is dispatched twice.
Append1_twice(f, j, e) == [f EXCEPT ![j] = Append(Append(@, e), e)]

Append1(f, j, e) == [f EXCEPT ![j] = Append(@, e)]

\* ------------------------------------------------ scheduler instances
NoScheduler == 0
\* AsyncIOScheduler(...): a new scheduler, not running, without listeners
AsyncIOScheduler == [running |-> FALSE, listeners |-> 0]
\* scheduler.add_listener(job_listener, ...)
add_listener(inst) == [inst EXCEPT !.listeners = @ + 1]

\* Mutant: init_scheduler makes a new scheduler whenever it is called.
init_scheduler_always_new(global, insts) ==
    [scheduler |-> Len(insts) + 1,
     instances |-> Append(insts, add_listener(AsyncIOScheduler))]

\* init_scheduler: the global and the scheduler objects after the call (it
\* returns the global).  A running scheduler is returned as it is; else a
\* new one is made, given the listener and assigned to the global.
init_scheduler(global, insts) ==
    IF global # NoScheduler /\ insts[global].running
    THEN [scheduler |-> global, instances |-> insts]
    ELSE [scheduler |-> Len(insts) + 1,
          instances |-> Append(insts, add_listener(AsyncIOScheduler))]

\* get_scheduler() when the global is g
get_scheduler(g) == g

\* Mutant: only a missing scheduler counts, as in the other handlers.
Unavailable_if_none(sch, insts) == sch = NoScheduler

\* not sched or not sched.running, for sched = get_scheduler()
Unavailable(sch, insts) == sch = NoScheduler \/ ~insts[sch].running

\* The process after a start in which sched.start() succeeded, after one in
\* which it raised (which lifespan only logs), and when it is not running.
Started ==
    [serving |-> TRUE, scheduler |-> 1,
     instances |-> <<[running |-> TRUE, listeners |-> 1]>>, sched |-> <<1>>]
StartFailed ==
    [serving |-> TRUE, scheduler |-> 1,
     instances |-> <<[running |-> FALSE, listeners |-> 1]>>, sched |-> <<1>>]
Ended ==
    [serving |-> FALSE, scheduler |-> NoScheduler, instances |-> << >>,
     sched |-> << >>]

\* ------------------------------------------------- accounts and secrets
\* Client secrets, in the order generate_client_secret hands them out.
SecretText == <<"s1", "s2", "s3", "s4">>
SecretIndex(text) == CHOOSE i \in 1..Len(SecretText) : SecretText[i] = text

\* The table when every account is linked: the row of account a belongs to
\* VK user a and holds the a-th secret.
LinkedAccounts ==
    {[id |-> a, client_secret |-> SecretText[a], vk_user_id |-> a] : a \in Accounts}

\* validate_vk_token for a token of the VK user of account a: users.get
\* answers with the id of that user.
validate_vk_token(a) == a

\* secrets.token_urlsafe(32): a secret that was never returned before, the
\* one after the latest of the table (every secret enters the table as its
\* latest); none when the secrets of the model are used up.
generate_client_secret(table) ==
    LET used == {SecretIndex(r.client_secret) : r \in table}
        latest == IF used = {} THEN 0
                  ELSE CHOOSE i \in used : \A k \in used : k <= i
    IN  {SecretText[i] : i \in {latest + 1} \cap (1..Len(SecretText))}

\* client_secret TEXT UNIQUE: the secret is held by the row of another user
IntegrityError(table, client_secret, vk_user_id) ==
    \E r \in table : r.client_secret = client_secret /\ r.vk_user_id # vk_user_id

\* id INTEGER PRIMARY KEY AUTOINCREMENT
NextRowId(table) ==
    IF table = {} THEN 1
    ELSE 1 + (CHOOSE i \in {r.id : r \in table} : \A r \in table : r.id <= i)

\* Mutant: INSERT OR REPLACE, which deletes the row of the user and inserts
\* a new one under a new id.
upsert_replace(table, client_secret, vk_user_id) ==
    {r \in table : r.vk_user_id # vk_user_id}
    \cup {[id |-> NextRowId(table), client_secret |-> client_secret,
           vk_user_id |-> vk_user_id]}

\* INSERT ... ON CONFLICT(vk_user_id) DO UPDATE SET client_secret = ...: the
\* row of the user keeps its id and gets the secret; a user without a row
\* gets a new row.
upsert(table, client_secret, vk_user_id) ==
    IF \E r \in table : r.vk_user_id = vk_user_id
    THEN {IF r.vk_user_id = vk_user_id
          THEN [r EXCEPT !.client_secret = client_secret] ELSE r : r \in table}
    ELSE table \cup {[id |-> NextRowId(table), client_secret |-> client_secret,
                      vk_user_id |-> vk_user_id]}

\* The value of the Authorization header: absent, or a text given as its
\* words and the blanks between them.
NoHeader == [present |-> FALSE, text |-> << >>]
Header(text) == [present |-> TRUE, text |-> text]
SECRET_SCHEME == "Secret"
SecretHeader(client_secret) == Header(<<SECRET_SCHEME, " ", client_secret>>)

\* header.split(): the words of the text, without the blanks
split(text) == SelectSeq(text, LAMBDA w : w # " ")

\* Mutant: the scheme of the header is not compared.
get_account_id_from_secret_any_scheme(header, table) ==
    IF ~header.present THEN [status |-> 401, account_id |-> 0]
    ELSE LET parts == split(header.text)
         IN  IF Len(parts) # 2 THEN [status |-> 401, account_id |-> 0]
             ELSE LET rows == {r \in table : r.client_secret = parts[2]}
                  IN  IF rows = {} THEN [status |-> 401, account_id |-> 0]
                      ELSE [status |-> 200,
                            account_id |-> (CHOOSE r \in rows : TRUE).id]

\* get_account_id_from_secret: 401 for a header that is missing, is not
\* "Secret <value>", or whose value is the client_secret of no row; else
\* the id of the row.
get_account_id_from_secret(header, table) ==
    IF ~header.present THEN [status |-> 401, account_id |-> 0]
    ELSE LET parts == split(header.text)
         IN  IF Len(parts) # 2 \/ parts[1] # SECRET_SCHEME
             THEN [status |-> 401, account_id |-> 0]
             ELSE LET rows == {r \in table : r.client_secret = parts[2]}
                  IN  IF rows = {} THEN [status |-> 401, account_id |-> 0]
                      ELSE [status |-> 200,
                            account_id |-> (CHOOSE r \in rows : TRUE).id]

\* ------------------------------------------------- the delivery client
\* None where send_vk_message returns a message id.
NoMessageId == 0 - 1
\* Message ids VK answers with.
MessageIds == 1..MaxJobs

\* The JSON bodies VK can answer messages.send with: the value under
\* "response" (absent, a number, an object), the value under "error"
\* (absent, an object with or without error_msg and error_code, or not an
\* object), and the HTTP status of the answer.
JsonBodies ==
    [response : {[type |-> "absent", value |-> 0], [type |-> "dict", value |-> 0]}
                \cup {[type |-> "int", value |-> v] : v \in MessageIds},
     error : {"absent", "full", "empty", "text"},
     status : {200, 500}]
NoBody == [response |-> [type |-> "absent", value |-> 0], error |-> "absent",
           status |-> 0]

\* What happens to one request: client.post raises (a timeout, another
\* transport error), response.json() raises on a body that is not JSON, or
\* a JSON body is read.
Upstream ==
    {[kind |-> k, data |-> NoBody] :
        k \in {"TimeoutException", "ConnectError", "JSONDecodeError"}}
    \cup {[kind |-> "json", data |-> d] : d \in JsonBodies}

\* The exception classes named by the handlers, as the sets of the
\* exceptions modelled here that are instances of them.
TimeoutException == {"TimeoutException"}
RequestError == {"TimeoutException", "ConnectError"}
\* Mutant: the last handler catches transport errors only.
Exception_transport_only == RequestError
Exception == {"TimeoutException", "ConnectError", "JSONDecodeError",
              "HTTPStatusError", "AttributeError"}

Triple(success, id, error) ==
    [raised |-> "None", success |-> success, vk_message_id |-> id,
     error_message |-> error]
Raised(class) ==
    [raised |-> class, success |-> FALSE, vk_message_id |-> NoMessageId,
     error_message |-> "None"]

\* The body of the try block: what it returns or the exception it raises.
\* An "error" value that is not an object has no method get; a body with
\* neither key and a status of 400 or more raises from raise_for_status().
post_messages_send(up) ==
    IF up.kind # "json" THEN Raised(up.kind)
    ELSE IF up.data.response.type # "absent"
    THEN Triple(TRUE,
                IF up.data.response.type = "int" THEN up.data.response.value
                                                 ELSE NoMessageId,
                "None")
    ELSE IF up.data.error # "absent"
    THEN IF up.data.error = "text" THEN Raised("AttributeError")
         ELSE Triple(FALSE, NoMessageId, "VK Error")
    ELSE IF up.data.status >= 400 THEN Raised("HTTPStatusError")
    ELSE Triple(FALSE, NoMessageId, "Unknown VK API response")

\* send_vk_message: the parameter check, the try block and its handlers in
\* their order.  Error texts are given by their fixed beginning.
send_vk_message(token, recipient_id, message, up) ==
    IF token = "" \/ recipient_id = << >> \/ message = << >>
    THEN Triple(FALSE, NoMessageId, "Internal error: Invalid parameters")
    ELSE LET r == post_messages_send(up)
         IN  IF r.raised = "None" THEN r
             ELSE IF r.raised \in TimeoutException
             THEN Triple(FALSE, NoMessageId, "Timeout sending message to VK")
             ELSE IF r.raised \in RequestError
             THEN Triple(FALSE, NoMessageId, "Network/HTTP error")
             ELSE IF r.raised \in Exception
             THEN Triple(FALSE, NoMessageId, "Unexpected error")
             ELSE r

\* The arguments of a call and what VK does to it; the call has not ended.
Call(token, recipient_id, message, up) ==
    [token |-> token, recipient_id |-> recipient_id, message |-> message,
     upstream |-> up, ended |-> FALSE, outcome |-> Raised("None")]
\* No call of send_vk_message is followed.
NoCall == Call("", << >>, << >>, [kind |-> "none", data |-> NoBody])

Init ==
    /\ now = 0
    /\ timedeltaBound \in BOOLEAN
    /\ running = TRUE
    /\ store = {}
    /\ tasks = << >>
    /\ sending = {}
    /\ issued = [j \in JobIds |-> 0]
    /\ calls = [j \in JobIds |-> 0]
    /\ events = [j \in JobIds |-> << >>]
    /\ result = [j \in JobIds |-> "none"]
    /\ removed = {}
    /\ pendingAtStop = {}
    /\ dueAtStart = {}
    /\ vault = [a \in Accounts |-> "vk1"]
    /\ sentWith = [j \in DOMAIN issued |-> "None"]
    /\ accounts = LinkedAccounts
    /\ ProcessIs(Started)
    /\ vkCall = NoCall
    /\ response = NoResponse

Tick ==
    /\ now + 1 \in ClockValues
    /\ now' = now + 1
    /\ UNCHANGED <<timedeltaBound, running, store, tasks, sending, issued,
                   calls, events, result, removed>>
    /\ response' = NoResponse
    /\ UNCHANGED <<pendingAtStop, dueAtStart, vault, sentWith, accounts, vkCall>>
    /\ UNCHANGED lifecycle

\* The event loop is blocked, or the process is down, for LongDelay seconds.
Delay ==
    /\ now + LongDelay \in ClockValues
    /\ now' = now + LongDelay
    /\ UNCHANGED <<timedeltaBound, running, store, tasks, sending, issued,
                   calls, events, result, removed>>
    /\ response' = NoResponse
    /\ UNCHANGED <<pendingAtStop, dueAtStart, vault, sentWith, accounts, vkCall>>
    /\ UNCHANGED lifecycle

\* POST /api/schedules by account a, with uuid4 drawing the job id from ids.
\* A body that fails validation is answered 422 before the handler runs;
\* the handler first answers 500 when get_scheduler() is None or not running.
\* add_job either writes the row or raises (an error of the job store, or
\* the id is taken); whatever it raises is answered 500.
SubmitWith(a, req, ids) ==
    /\ serving
    /\ IF ~ScheduleRequestValid(req)
       THEN /\ response' = Resp("submit", 422, NoJob, << >>)
            /\ UNCHANGED <<store, issued>>
       ELSE IF Unavailable(get_scheduler(scheduler), instances)
       THEN /\ response' = [Resp("submit", 500, NoJob, << >>)
                                EXCEPT !.log = "Scheduler service is unavailable"]
            /\ UNCHANGED <<store, issued>>
       ELSE IF LeadTimeCheck(req) # 0
       THEN /\ response' = Resp("submit", LeadTimeCheck(req), NoJob, << >>)
            /\ UNCHANGED <<store, issued>>
       ELSE \E id \in ids : \E io \in {"ok", "OperationalError"} :
            LET job == NewJob(id, a, req, ToUtc(req.scheduled_at))
            IN  /\ job.run_date \in ClockValues
                /\ store' = IF io = "ok" THEN add_job(store, job)
                                        ELSE add_job_failed(store, job)
                /\ IF io # "ok" \/ id \in StoredIds(store)
                   THEN /\ response' = [Resp("submit", 500, NoJob, << >>)
                                            EXCEPT !.log = "Error adding job"]
                        /\ UNCHANGED issued
                   ELSE /\ response' = Resp("submit", 202, id, << >>)
                        /\ issued' = Bump(issued, id)
    /\ UNCHANGED <<now, timedeltaBound, running, tasks, sending, calls, events,
                   result, removed>>
    /\ UNCHANGED <<pendingAtStop, dueAtStart, vault, sentWith, accounts, vkCall>>
    /\ UNCHANGED lifecycle

\* POST /api/schedules by account a
Submit(a, req) == SubmitWith(a, req, uuid4)

\* GET /api/schedules by account a
List(a) ==
    /\ running
    /\ \E body \in ListTasks(store, a) : response' = Resp("list", 200, NoJob, body)
    /\ UNCHANGED <<now, timedeltaBound, running, store, tasks, sending, issued,
                   calls, events, result, removed>>
    /\ UNCHANGED <<pendingAtStop, dueAtStart, vault, sentWith, accounts, vkCall>>
    /\ UNCHANGED lifecycle

\* Mutant: a cancel also cancels the run of the job that is in flight.
Cancel_interrupts(a, id) ==
    /\ running
    /\ LET exc == DeleteRaises(store, a, id)
       IN  /\ response' = [Resp("cancel", DeleteStatus(exc), id, << >>)
                                EXCEPT !.log = DeleteLog(store, id, exc)]
           /\ IF exc = "none" /\ get_job(store, id) # {}
              THEN /\ store' = remove_job(store, id)
                   /\ removed' = removed \cup {id}
              ELSE UNCHANGED <<store, removed>>
    /\ sending' = sending \ {id}
    /\ UNCHANGED <<now, timedeltaBound, running, tasks, issued, calls, events,
                   result>>
    /\ UNCHANGED <<pendingAtStop, dueAtStart, vault, sentWith, accounts, vkCall>>
    /\ UNCHANGED lifecycle

\* DELETE /api/schedules/{id} by account a
Cancel(a, id) ==
    /\ running
    /\ LET exc == DeleteRaises(store, a, id)
       IN  /\ response' = [Resp("cancel", DeleteStatus(exc), id, << >>)
                                EXCEPT !.log = DeleteLog(store, id, exc)]
           /\ IF exc = "none" /\ get_job(store, id) # {}
              THEN /\ store' = remove_job(store, id)
                   /\ removed' = removed \cup {id}
              ELSE UNCHANGED <<store, removed>>
    /\ UNCHANGED <<now, timedeltaBound, running, tasks, sending, issued, calls,
                   events, result>>
    /\ UNCHANGED <<pendingAtStop, dueAtStart, vault, sentWith, accounts, vkCall>>
    /\ UNCHANGED lifecycle

\* scheduler._process_jobs: every due job is handed to the executor (a task
\* on the event loop) in the order of the store, and a job whose trigger
\* has no further fire time is removed from the store.
ProcessJobs ==
    /\ running
    /\ DueJobs(store, now) # {}
    /\ \E q \in SortedOrders(DueJobs(store, now)) :
           tasks' = tasks \o SelectSeq(q, LAMBDA job : Instances(job.id) < MaxInstances)
    /\ store' = {job \in store : job \in DueJobs(store, now) =>
                                 get_next_fire_time(job, job.run_date) # NoTime}
    /\ UNCHANGED <<now, timedeltaBound, running, sending, issued, calls, events,
                   result, removed>>
    /\ response' = NoResponse
    /\ UNCHANGED <<pendingAtStop, dueAtStart, vault, sentWith, accounts, vkCall>>
    /\ UNCHANGED lifecycle

\* run_coroutine_job starts for the oldest task: a run later than the grace
\* time is reported missed; otherwise schedule_vk_message_job is called and
\* either returns at once (no token) or suspends in send_vk_message.
StartTask ==
    /\ running
    /\ tasks # << >>
    /\ LET job == Head(tasks)
       IN  /\ tasks' = Tail(tasks)
           /\ IF Misfired(job, now)
              THEN /\ events' = Append1(events, job.id, "MISSED")
                   /\ UNCHANGED <<calls, result, sending, sentWith>>
              ELSE /\ calls' = Bump(calls, job.id)
                   /\ \E token \in get_decrypted_vk_token(vault, job.account_id) :
                        IF token = "None"
                        THEN /\ result' = [result EXCEPT ![job.id] = "no_token"]
                             /\ events' = Append1(events, job.id, "EXECUTED")
                             /\ UNCHANGED <<sending, sentWith>>
                        ELSE /\ sending' = sending \cup {job.id}
                             /\ sentWith' = [sentWith EXCEPT ![job.id] = token]
                             /\ UNCHANGED <<result, events>>
    /\ UNCHANGED <<now, timedeltaBound, running, store, issued, removed>>
    /\ response' = NoResponse
    /\ UNCHANGED <<pendingAtStop, dueAtStart, vault, accounts, vkCall>>
    /\ UNCHANGED lifecycle

\* Mutant: an exception that escapes the job function ends the scheduler.
FinishSend_propagates(id, outcome) ==
    /\ running
    /\ id \in sending
    /\ sending' = sending \ {id}
    /\ result' = [result EXCEPT ![id] = outcome]
    /\ events' = Append1(events, id, IF outcome = "exception" THEN "ERROR"
                                                                ELSE "EXECUTED")
    /\ running' = (outcome # "exception")
    /\ UNCHANGED <<now, timedeltaBound, store, tasks, issued, calls, removed>>
    /\ response' = NoResponse
    /\ UNCHANGED <<pendingAtStop, dueAtStart, vault, sentWith, accounts, vkCall>>
    /\ UNCHANGED lifecycle

\* send_vk_message returns (success, id, error); the job function logs it
\* and returns None, which the executor reports as EVENT_JOB_EXECUTED.  An
\* exception that escapes the job function (it has no handler of its own) is
\* caught by the executor and reported as EVENT_JOB_ERROR.
FinishSend(id, outcome) ==
    /\ running
    /\ id \in sending
    /\ sending' = sending \ {id}
    /\ result' = [result EXCEPT ![id] = outcome]
    /\ events' = Append1(events, id, IF outcome = "exception" THEN "ERROR"
                                                                ELSE "EXECUTED")
    /\ UNCHANGED <<now, timedeltaBound, running, store, tasks, issued, calls,
                   removed>>
    /\ response' = NoResponse
    /\ UNCHANGED <<pendingAtStop, dueAtStart, vault, sentWith, accounts, vkCall>>
    /\ UNCHANGED lifecycle

\* Mutant: the jobs are kept in a MemoryJobStore, which ends with the process.
Stop_memory_store ==
    /\ serving
    /\ running' = FALSE
    /\ tasks' = << >>
    /\ sending' = {}
    /\ store' = {}
    /\ pendingAtStop' = {job.id : job \in store \ DueJobs(store, now)}
    /\ dueAtStart' = {}
    /\ UNCHANGED <<now, timedeltaBound, issued, calls, events, result, removed,
                   vault, sentWith, accounts, vkCall>>
    /\ ProcessBecomes(Ended)
    /\ response' = NoResponse

\* The process ends (sched.shutdown() in lifespan, or a crash): the tasks
\* of the event loop are gone, the job store stays.
Stop ==
    /\ serving
    /\ running' = FALSE
    /\ tasks' = << >>
    /\ sending' = {}
    /\ pendingAtStop' = {job.id : job \in store \ DueJobs(store, now)}
    /\ dueAtStart' = {}
    /\ UNCHANGED <<now, timedeltaBound, store, issued, calls, events, result,
                   removed, vault, sentWith, accounts, vkCall>>
    /\ ProcessBecomes(Ended)
    /\ response' = NoResponse

\* Mutant: at a start, overdue jobs are moved to the instant of the start.
Startup_reschedules ==
    /\ ~serving
    /\ running' = TRUE
    /\ store' = {[job EXCEPT !.run_date = IF @ < now THEN now ELSE @] : job \in store}
    /\ dueAtStart' = {job.id : job \in DueJobs(store, now)} \cap pendingAtStop
    /\ pendingAtStop' = {}
    /\ UNCHANGED <<now, timedeltaBound, tasks, sending, issued, calls, events,
                   result, removed, vault, sentWith, accounts, vkCall>>
    /\ ProcessBecomes(Started)
    /\ response' = NoResponse

\* lifespan: init_scheduler() on the same job store, sched.start()
Startup ==
    /\ ~serving
    /\ running' = TRUE
    /\ dueAtStart' = {job.id : job \in DueJobs(store, now)} \cap pendingAtStop
    /\ pendingAtStop' = {}
    /\ UNCHANGED <<now, timedeltaBound, store, tasks, sending, issued, calls,
                   events, result, removed, vault, sentWith, accounts, vkCall>>
    /\ ProcessBecomes(Started)
    /\ response' = NoResponse

\* lifespan in a new process in which sched.start() raises: the exception
\* is logged and the application serves with a scheduler that is not running.
StartupFails ==
    /\ ~serving
    /\ ProcessBecomes(StartFailed)
    /\ UNCHANGED <<now, timedeltaBound, running, store, tasks, sending, issued,
                   calls, events, result, removed, pendingAtStop, dueAtStart,
                   vault, sentWith, accounts, vkCall>>
    /\ response' = NoResponse

\* POST /api/link_account with a token of the VK user of account a: a token
\* VK does not accept is answered 400; otherwise a new client secret is
\* generated and written with the token by the INSERT ... ON CONFLICT, and
\* the secret is returned with 201.  An sqlite3.IntegrityError is answered
\* 500 and writes nothing.
Link(a, token) ==
    /\ running
    /\ IF token \notin Tokens
       THEN /\ response' = Resp("link", 400, NoJob, << >>)
            /\ UNCHANGED <<vault, accounts>>
       ELSE \E client_secret \in generate_client_secret(accounts) :
              IF IntegrityError(accounts, client_secret, validate_vk_token(a))
              THEN /\ response' = Resp("link", 500, NoJob, << >>)
                   /\ UNCHANGED <<vault, accounts>>
              ELSE /\ response' = Resp("link", 201, NoJob, <<client_secret>>)
                   /\ accounts' = upsert(accounts, client_secret, validate_vk_token(a))
                   /\ vault' = [vault EXCEPT ![a] = token]
    /\ UNCHANGED <<now, timedeltaBound, running, store, tasks, sending, issued,
                   calls, events, result, removed, pendingAtStop, dueAtStart,
                   sentWith, vkCall>>
    /\ UNCHANGED lifecycle

Next ==
    \/ Tick
    \/ Delay
    \/ \E a \in Accounts : \E req \in SubmitRequests(now) : Submit(a, req)
    \/ \E a \in Accounts : List(a)
    \/ \E a \in Accounts : \E id \in JobIds : Cancel(a, id)
    \/ ProcessJobs
    \/ StartTask
    \/ \E id \in JobIds : \E outcome \in Outcomes : FinishSend(id, outcome)
    \/ Stop
    \/ Startup

Spec == Init /\ [][Next]_vars

\* The scheduler wakes up for its due jobs, the event loop runs the tasks it
\* was given, and the clock advances.
FairSpec == Spec /\ WF_vars(Tick) /\ WF_vars(ProcessJobs) /\ WF_vars(StartTask)

\* ------------------------------------------------- a burst of due jobs
\* One job more than max_instances, accepted for one account with the same
\* run date, which has just come; the scheduler has not woken up yet.
BurstIds == 1..(MaxInstances + 1)

BurstInit ==
    /\ now = LeadSeconds + 1
    /\ timedeltaBound = TRUE
    /\ running = TRUE
    /\ store = {NewJob(j, 1, [recipient_id |-> <<"1">>, message |-> Hello],
                       LeadSeconds + 1) : j \in BurstIds}
    /\ tasks = << >>
    /\ sending = {}
    /\ issued = [j \in BurstIds |-> 1]
    /\ calls = [j \in BurstIds |-> 0]
    /\ events = [j \in BurstIds |-> << >>]
    /\ result = [j \in BurstIds |-> "none"]
    /\ removed = {}
    /\ pendingAtStop = {}
    /\ dueAtStart = {}
    /\ vault = [a \in Accounts |-> "vk1"]
    /\ sentWith = [j \in DOMAIN issued |-> "None"]
    /\ accounts = LinkedAccounts
    /\ ProcessIs(Started)
    /\ vkCall = NoCall
    /\ response = NoResponse

BurstNext ==
    \/ ProcessJobs
    \/ StartTask
    \/ \E id \in BurstIds : FinishSend(id, "delivered")

BurstSpec == BurstInit /\ [][BurstNext]_vars

\* ------------------------------------------- messages of every length
\* A message of n characters in which neighbouring characters differ.
Alphabet == <<"a", "b", "c", "d", "e", "f", "g">>
Payload(n) == [i \in 1..n |-> Alphabet[(i % Len(Alphabet)) + 1]]

\* One job is stored, with a message of any length the request model lets
\* through; the accounts list their jobs.
PreviewInit ==
    /\ now = 0
    /\ timedeltaBound = TRUE
    /\ running = TRUE
    /\ \E n \in 1..MaxMessageLen :
         store = {NewJob(1, 1, [recipient_id |-> <<"1">>, message |-> Payload(n)],
                         LeadSeconds + 1)}
    /\ tasks = << >>
    /\ sending = {}
    /\ issued = [j \in JobIds |-> IF j = 1 THEN 1 ELSE 0]
    /\ calls = [j \in JobIds |-> 0]
    /\ events = [j \in JobIds |-> << >>]
    /\ result = [j \in JobIds |-> "none"]
    /\ removed = {}
    /\ pendingAtStop = {}
    /\ dueAtStart = {}
    /\ vault = [a \in Accounts |-> "vk1"]
    /\ sentWith = [j \in DOMAIN issued |-> "None"]
    /\ accounts = LinkedAccounts
    /\ ProcessIs(Started)
    /\ vkCall = NoCall
    /\ response = NoResponse

PreviewNext == \E a \in Accounts : List(a)

PreviewSpec == PreviewInit /\ [][PreviewNext]_vars

\* ------------------------------------------------- accounts re-linked
\* Each account has one accepted job, not yet due.  The accounts are linked
\* again, with a new token or one VK refuses, while the jobs wait, fire and
\* are listed and cancelled, and the process stops and starts.
RelinkJobs ==
    {NewJob(a, a, [recipient_id |-> <<"1">>, message |-> Hello], LeadSeconds + a) :
        a \in Accounts}

RelinkInit ==
    /\ now = 0
    /\ timedeltaBound = TRUE
    /\ running = TRUE
    /\ store = RelinkJobs
    /\ tasks = << >>
    /\ sending = {}
    /\ issued = [j \in JobIds |-> IF j \in StoredIds(RelinkJobs) THEN 1 ELSE 0]
    /\ calls = [j \in JobIds |-> 0]
    /\ events = [j \in JobIds |-> << >>]
    /\ result = [j \in JobIds |-> "none"]
    /\ removed = {}
    /\ pendingAtStop = {}
    /\ dueAtStart = {}
    /\ vault = [a \in Accounts |-> "vk1"]
    /\ sentWith = [j \in JobIds |-> "None"]
    /\ accounts = LinkedAccounts
    /\ ProcessIs(Started)
    /\ vkCall = NoCall
    /\ response = NoResponse

RelinkNext ==
    \/ Tick
    \/ \E a \in Accounts : \E token \in Tokens \cup {"expired"} : Link(a, token)
    \/ \E a \in Accounts : List(a)
    \/ \E a \in Accounts : \E id \in JobIds : Cancel(a, id)
    \/ ProcessJobs
    \/ StartTask
    \/ \E id \in JobIds : \E outcome \in Outcomes : FinishSend(id, outcome)
    \/ Stop
    \/ Startup

RelinkSpec == RelinkInit /\ [][RelinkNext]_vars

\* ------------------------------------------------- job ids that collide
\* uuid4 may return an id it returned before, however unlikely: here every
\* id can come out of it, the ids of stored jobs included.
CollisionNext ==
    \/ Tick
    \/ \E a \in Accounts : \E req \in SubmitRequests(now) : SubmitWith(a, req, JobIds)
    \/ \E a \in Accounts : List(a)
    \/ ProcessJobs
    \/ StartTask
    \/ \E id \in JobIds : \E outcome \in Outcomes : FinishSend(id, outcome)

CollisionSpec == Init /\ [][CollisionNext]_vars

\* ------------------------------------------- requests with their header
\* The dependency get_account_id_from_secret raised 401: the handler is not
\* entered.
Unauthenticated(op) ==
    /\ running
    /\ response' = Resp(op, 401, NoJob, << >>)
    /\ UNCHANGED <<now, timedeltaBound, running, store, tasks, sending, issued,
                   calls, events, result, removed, pendingAtStop, dueAtStart,
                   vault, sentWith, accounts, vkCall>>
    /\ UNCHANGED lifecycle

\* POST /api/schedules, GET /api/schedules and DELETE /api/schedules/{id}
\* with an Authorization header: the handler runs for the account id the
\* dependency returns.
ApiSubmit(header, req) ==
    LET auth == get_account_id_from_secret(header, accounts)
    IN  IF auth.status = 401 THEN Unauthenticated("submit")
        ELSE Submit(auth.account_id, req)

ApiList(header) ==
    LET auth == get_account_id_from_secret(header, accounts)
    IN  IF auth.status = 401 THEN Unauthenticated("list")
        ELSE List(auth.account_id)

ApiCancel(header, id) ==
    LET auth == get_account_id_from_secret(header, accounts)
    IN  IF auth.status = 401 THEN Unauthenticated("cancel")
        ELSE Cancel(auth.account_id, id)

\* Headers of requests: none, texts that are not "Secret <value>", and
\* every secret under the scheme, with single or several blanks.
Headers ==
    {NoHeader, Header(<< >>), Header(<<SECRET_SCHEME>>),
     Header(<<"Bearer", " ", SecretText[1]>>),
     Header(<<"secret", " ", SecretText[1]>>),
     Header(<<SECRET_SCHEME, " ", SecretText[1], " ", "x">>),
     Header(<<" ", SECRET_SCHEME, " ", " ", SecretText[2], " ">>)}
    \cup {SecretHeader(SecretText[i]) : i \in 1..Len(SecretText)}

\* The requests sent with them: for the least lead time that is accepted,
\* for one second less, and with an empty message.
AuthRequests(t) ==
    LET good == [recipient_id |-> <<"1">>, message |-> Hello,
                 scheduled_at |-> Aware(t + LeadSeconds + 1, 0)]
    IN  {good, [good EXCEPT !.scheduled_at = Aware(t + LeadSeconds, 0)],
         [good EXCEPT !.message = Empty]}

\* The first account has a job it was answered for, not yet due; the other
\* job ids are free.  Requests come with any header while accounts are
\* linked again and the jobs fire and are delivered.
AuthJobs ==
    {NewJob(1, 1, [recipient_id |-> <<"1">>, message |-> Hello], LeadSeconds + 1)}

AuthInit ==
    /\ now = 0
    /\ timedeltaBound \in BOOLEAN
    /\ running = TRUE
    /\ store = AuthJobs
    /\ tasks = << >>
    /\ sending = {}
    /\ issued = [j \in JobIds |-> IF j \in StoredIds(AuthJobs) THEN 1 ELSE 0]
    /\ calls = [j \in JobIds |-> 0]
    /\ events = [j \in JobIds |-> << >>]
    /\ result = [j \in JobIds |-> "none"]
    /\ removed = {}
    /\ pendingAtStop = {}
    /\ dueAtStart = {}
    /\ vault = [a \in Accounts |-> "vk1"]
    /\ sentWith = [j \in JobIds |-> "None"]
    /\ accounts = LinkedAccounts
    /\ ProcessIs(Started)
    /\ vkCall = NoCall
    /\ response = NoResponse

AuthNext ==
    \/ Tick
    \/ \E a \in Accounts : \E token \in {"vk1", "expired"} : Link(a, token)
    \/ \E header \in Headers : \E req \in AuthRequests(now) : ApiSubmit(header, req)
    \/ \E header \in Headers : ApiList(header)
    \/ \E header \in Headers : \E id \in JobIds : ApiCancel(header, id)
    \/ ProcessJobs
    \/ StartTask
    \/ \E id \in JobIds : FinishSend(id, "delivered")

AuthSpec == AuthInit /\ [][AuthNext]_vars

\* --------------------------------------------- a scheduler that is down
\* The process stops and starts, and some starts leave the scheduler not
\* running; requests to schedule arrive whenever the application serves.
OutageNext ==
    \/ Tick
    \/ \E a \in Accounts : \E req \in SubmitRequests(now) : Submit(a, req)
    \/ Stop
    \/ Startup
    \/ StartupFails

OutageSpec == Init /\ [][OutageNext]_vars

\* --------------------------------------- lifespans within one process
\* lifespan up to the yield: init_scheduler(), then sched.start() unless the
\* scheduler runs already; started tells whether start() succeeds (if it
\* raises, the exception is logged and the application serves).
LifespanEnter(started) ==
    /\ Len(sched) < MaxLifespans
    /\ LET init == init_scheduler(scheduler, instances)
           s == init.scheduler
       IN  /\ Len(init.instances) <= MaxLifespans
           /\ scheduler' = s
           /\ sched' = Append(sched, s)
           /\ instances' = IF ~init.instances[s].running /\ started
                           THEN [init.instances EXCEPT ![s].running = TRUE]
                           ELSE init.instances
           /\ running' = (init.instances[s].running \/ started)
    /\ serving' = TRUE
    /\ UNCHANGED <<now, timedeltaBound, store, tasks, sending, issued, calls,
                   events, result, removed, pendingAtStop, dueAtStart, vault,
                   sentWith, accounts, vkCall>>
    /\ response' = NoResponse

\* lifespan after the yield, for the i-th open lifespan: its scheduler is
\* shut down if it is running, which cancels the tasks of its executor.
LifespanExit(i) ==
    /\ i \in 1..Len(sched)
    /\ LET s == sched[i]
       IN  /\ instances' = [instances EXCEPT ![s].running = FALSE]
           /\ IF instances[s].running
              THEN tasks' = << >> /\ sending' = {}
              ELSE UNCHANGED <<tasks, sending>>
           /\ running' = (running /\ s # scheduler)
    /\ sched' = [k \in 1..(Len(sched) - 1) |-> IF k < i THEN sched[k] ELSE sched[k + 1]]
    /\ serving' = (Len(sched) > 1)
    /\ UNCHANGED <<now, timedeltaBound, store, issued, calls, events, result,
                   removed, pendingAtStop, dueAtStart, vault, sentWith, accounts,
                   vkCall, scheduler>>
    /\ response' = NoResponse

\* The module scheduler.py was just imported: no scheduler yet.
LifespanInit ==
    /\ now = 0
    /\ timedeltaBound \in BOOLEAN
    /\ running = FALSE
    /\ store = {}
    /\ tasks = << >>
    /\ sending = {}
    /\ issued = [j \in JobIds |-> 0]
    /\ calls = [j \in JobIds |-> 0]
    /\ events = [j \in JobIds |-> << >>]
    /\ result = [j \in JobIds |-> "none"]
    /\ removed = {}
    /\ pendingAtStop = {}
    /\ dueAtStart = {}
    /\ vault = [a \in Accounts |-> "vk1"]
    /\ sentWith = [j \in JobIds |-> "None"]
    /\ accounts = LinkedAccounts
    /\ ProcessIs(Ended)
    /\ vkCall = NoCall
    /\ response = NoResponse

LifespanNext ==
    \/ \E started \in BOOLEAN : LifespanEnter(started)
    \/ \E i \in 1..MaxLifespans : LifespanExit(i)
    \/ \E a \in Accounts : \E req \in AuthRequests(now) : Submit(a, req)

LifespanSpec == LifespanInit /\ [][LifespanNext]_vars

\* ================================================================ claims
LastInstant == MaxTicks + LongDelay

QueuedIds == {tasks[i].id : i \in 1..Len(tasks)}

\* Every task list account a can be answered with has job j, with one of
\* the given statuses.
ListedAs(st, a, j, statuses) ==
    \A body \in ListTasks(st, a) :
        \E i \in 1..Len(body) : body[i].job_id = j /\ body[i].status \in statuses

\* C1: every successful submit returns a job id that no earlier submit
\* returned, and a list by the same account right after it contains that job
\* id with status PENDING.
C1_FreshIdListed ==
    [][(response'.op = "submit" /\ response'.code = 202) =>
          /\ response'.job_id \in JobIds
          /\ issued[response'.job_id] = 0
          /\ \A a \in Accounts :
                (\E req \in SubmitRequests(now) : Submit(a, req)) =>
                    ListedAs(store', a, response'.job_id, {"PENDING"})]_vars

C1_Witness ==
    /\ response.op = "submit"
    /\ response.code = 202
    /\ \E j \in JobIds : j # response.job_id /\ issued[j] = 1
    /\ \E a \in Accounts : ListedAs(store, a, response.job_id, {"PENDING"})

\* C2: a submit whose trigger time is not later than now plus the minimum
\* lead time is answered with a client error and stores no job.
C2_TooSoonIsClientError ==
    [][response'.op = "submit" =>
          \A a \in Accounts : \A req \in SubmitRequests(now) :
              (Submit(a, req) /\ ScheduleRequestValid(req)
                  /\ ToUtc(req.scheduled_at) <= now + LeadSeconds) =>
                  /\ response'.code \in 400..499
                  /\ store' = store]_vars

\* C3: a cancel of a stored job by another account than its owner is
\* answered 403 and leaves the job as it was.
C3_ForeignCancelForbidden ==
    [][response'.op = "cancel" =>
          \A a \in Accounts : \A id \in JobIds :
              (Cancel(a, id) /\ \E job \in get_job(store, id) : job.account_id # a) =>
                  /\ response'.code = 403
                  /\ store' = store]_vars

\* C4: a job that its owner's cancel removed from the store is never handed
\* to the executor and the job function is never invoked for it; removal and
\* execution of one job id exclude each other.
C4_CancelledNeverRuns ==
    \A j \in removed :
        /\ calls[j] = 0
        /\ events[j] = << >>
        /\ Instances(j) = 0
        /\ j \notin StoredIds(store)

C4_Witness ==
    /\ now = LastInstant
    /\ running
    /\ \E j \in removed : \E k \in JobIds : k # j /\ calls[k] = 1

\* C5: a cancel by the owner, or of a job id that is not stored (never
\* issued, already removed, already fired), is answered 204, and a cancel of
\* a job id that is not stored changes nothing.
C5_CancelIdempotent ==
    [][response'.op = "cancel" =>
          \A a \in Accounts : \A id \in JobIds :
              (Cancel(a, id) /\ \A job \in get_job(store, id) : job.account_id = a) =>
                  /\ response'.code = 204
                  /\ get_job(store, id) = {} =>
                        UNCHANGED <<store, tasks, sending, issued, calls, events,
                                    result, removed>>]_vars

C5_Witness ==
    /\ response.op = "cancel"
    /\ response.code = 204
    /\ response.log = "non-existent"
    /\ response.job_id \in removed

Executed(j) == \E i \in 1..Len(events[j]) : events[j][i] = "EXECUTED"
Missed(j) == \E i \in 1..Len(events[j]) : events[j][i] = "MISSED"
Failed(j) == result[j] \in {"rejected", "transport", "no_token"}

NotListed(st, j) ==
    \A a \in Accounts : \A body \in ListTasks(st, a) : j \notin ListedIds(body)

\* C6: a run that starts later than the job's run date plus its grace time
\* is reported missed and the job function is not invoked; the job function
\* is never invoked for a job reported missed.
C6_LateRunIsMissed ==
    /\ [](\A j \in JobIds : Missed(j) => calls[j] = 0)
    /\ [][(StartTask /\ now > Head(tasks).run_date + Head(tasks).misfire_grace_time) =>
             /\ events'[Head(tasks).id] = Append(events[Head(tasks).id], "MISSED")
             /\ calls' = calls
             /\ sending' = sending]_vars

C6_Witness ==
    \E j \in JobIds : events[j] = <<"MISSED">> /\ calls[j] = 0 /\ result[j] = "none"

\* C7: the job function is invoked only for the task at the head of the
\* queue and never before that job's run date; and while the scheduler is
\* running, a stored job is eventually invoked, reported missed or removed
\* by a cancel.
C7_NotEarlyAndAttempted ==
    /\ [][\A j \in JobIds : calls'[j] > calls[j] =>
             /\ tasks # << >>
             /\ Head(tasks).id = j
             /\ Head(tasks).run_date <= now]_vars
    /\ \A j \in JobIds :
         (j \in StoredIds(store) /\ running)
             ~> (calls[j] > 0 \/ Missed(j) \/ j \in removed \/ ~running)

C7_Witness ==
    \E j \in JobIds : calls[j] = 1 /\ now = LeadSeconds + 1

\* C8 as claimed: once a job's execution has finished, some account's list
\* shows it with status Succeeded or Failed, and it was invoked once.
C8_FinishedListedWithOutcome ==
    \A j \in JobIds : Executed(j) =>
        /\ calls[j] = 1
        /\ \E a \in Accounts : ListedAs(store, a, j, {"Succeeded", "Failed"})

\* C8 amended: once a job's execution has finished, no list contains the
\* job any more, and the job function was invoked exactly once for it.
C8_FinishedNotListed ==
    \A j \in JobIds : Executed(j) => (calls[j] = 1 /\ NotListed(store, j))

C8_Witness ==
    /\ response.op = "list"
    /\ response.code = 200
    /\ \E j \in JobIds : Executed(j) /\ result[j] = "delivered"

C10_AtMostOnce ==
    \A j \in JobIds :
        /\ calls[j] <= 1
        /\ Len(events[j]) <= 1
        /\ (calls[j] = 1 \/ events[j] # << >> \/ j \in removed) =>
               (j \notin StoredIds(store) /\ j \notin QueuedIds)

C10_Witness ==
    /\ now = LastInstant
    /\ running
    /\ \E j \in JobIds : Failed(j) /\ calls[j] = 1 /\ events[j] = <<"EXECUTED">>

\* Every task list account a can be answered with shows the job with its
\* id, recipient, message (as preview) and run date.
ListedJob(st, a, job) ==
    \A body \in ListTasks(st, a) :
        \E i \in 1..Len(body) :
            /\ body[i].job_id = job.id
            /\ body[i].recipient_id = job.recipient_id
            /\ body[i].message_preview = Preview(job.message)
            /\ body[i].next_run_time_iso = IsoMillis(job.run_date)

\* C11: when a submit is answered 202 the job is in the job store with the
\* id of the response and the account, recipient, message and run date of
\* the request; a stop and a start of the process leave the store as it is;
\* a stored job leaves the store, or changes, only when its owner's cancel
\* removes it or when it is due and handed to the executor; and every stored
\* job is listed for its owner with its id, recipient, message and run date.
C11_DurableAcrossRestart ==
    [][/\ (response'.op = "submit" /\ response'.code = 202) =>
             \A a \in Accounts : \A req \in SubmitRequests(now) :
                 Submit(a, req) =>
                     NewJob(response'.job_id, a, req, ToUtc(req.scheduled_at)) \in store'
       /\ running' # running => store' = store
       /\ \A job \in store :
             \/ job \in store'
             \/ /\ job.id \notin StoredIds(store')
                /\ \/ running /\ job.run_date <= now /\ response'.op = "none"
                   \/ /\ response'.op = "cancel"
                      /\ response'.job_id = job.id
                      /\ Cancel(job.account_id, job.id)
       /\ \A job \in store' : ListedJob(store', job.account_id, job)]_vars

C11_Witness ==
    /\ running
    /\ response.op = "list"
    /\ response.code = 200
    /\ \E job \in store :
         /\ job.id \in dueAtStart
         /\ job.id \in ListedIds(response.body)

\* C12: a start of the process leaves every stored job with its run date,
\* so a job whose run date passed while the process was down is due at once;
\* when its run starts it is invoked if it is at most the grace time late,
\* counted from its run date, and reported missed otherwise; it is invoked
\* at most once; and while the scheduler runs it is eventually invoked,
\* reported missed or removed by a cancel.
C12_DueAfterRestartRunsOnce ==
    /\ [][(~running /\ running') =>
             /\ store' = store
             /\ \A job \in store : job.run_date <= now => job \in DueJobs(store', now')]_vars
    /\ [][(tasks # << >> /\ tasks' = Tail(tasks) /\ running'
              /\ Head(tasks).id \in dueAtStart) =>
             IF now - Head(tasks).run_date <= MisfireGraceTime
             THEN calls' = Bump(calls, Head(tasks).id) /\ events'[Head(tasks).id] # <<"MISSED">>
             ELSE calls' = calls /\ events'[Head(tasks).id] = <<"MISSED">>]_vars
    /\ [](\A j \in dueAtStart : calls[j] <= 1)
    /\ \A j \in JobIds :
         (running /\ j \in dueAtStart /\ j \in StoredIds(store))
             ~> (calls[j] = 1 \/ Missed(j) \/ j \in removed \/ ~running)

C12_Witness ==
    /\ running
    /\ \E j \in dueAtStart :
         /\ calls[j] = 1
         /\ result[j] = "delivered"
         /\ events[j] = <<"EXECUTED">>

\* C13: the list an account is answered with holds, once each, exactly the
\* stored jobs whose account is the caller: no job of another account, and
\* every stored job of the caller; listing changes nothing.
C13_ListIsOwnPending ==
    [][response'.op = "list" =>
          \A a \in Accounts :
              List(a) =>
                  /\ response'.code = 200
                  /\ ListedIds(response'.body) =
                         {job.id : job \in {k \in store : k.account_id = a}}
                  /\ Len(response'.body) = Cardinality(ListedIds(response'.body))
                  /\ store' = store]_vars

C13_Witness ==
    /\ response.op = "list"
    /\ response.body # << >>
    /\ \E job \in store : job.id \notin ListedIds(response.body)

\* C14 as claimed: a run that found no token for the account does not reach
\* send_vk_message and is not reported to the scheduler as executed.
C14_NoCredentialIsFailure ==
    \A j \in JobIds :
        result[j] = "no_token" => (j \notin sending /\ ~Executed(j))

\* C15 as claimed: a delivered message is reported as an executed run, and
\* a rejected or failed delivery is never reported as an executed run.
C15_OutcomeMapped ==
    \A j \in JobIds :
        /\ result[j] = "delivered" => Executed(j)
        /\ result[j] \in {"rejected", "transport"} => ~Executed(j)

\* The jobs that are ready and whose run has not started, but for the one
\* at the head of the queue: the rest of the queue and the due stored jobs.
WaitingBehindHead == {tasks[i] : i \in 2..Len(tasks)} \cup DueJobs(store, now)

C17_BoundedConcurrency == Cardinality(sending) <= MaxInstances

NumericString(v) ==
    /\ Len(v) >= 1
    /\ v # <<"-">>
    /\ \A i \in 1..Len(v) : v[i] \in Digits \/ (i = 1 /\ v[i] = "-")

\* C19: a submit whose time is malformed or has no timezone, whose recipient
\* is not a numeric string, or whose message is empty or longer than 4096
\* characters is answered with a client error in the same step, and neither
\* stores a job nor uses up a job id.  (Stated by contraposition: a submit
\* step that is answered otherwise, or changes the store or the ids, is the
\* step of no such request.)
C19_InvalidRejected ==
    [][(/\ response'.op = "submit"
        /\ ~(/\ response'.code \in 400..499
             /\ response'.job_id = NoJob
             /\ store' = store
             /\ issued' = issued)) =>
          \A a \in Accounts : \A req \in SubmitRequests(now) :
              (\/ req.scheduled_at.kind \in {"malformed", "naive"}
               \/ ~NumericString(req.recipient_id)
               \/ Len(req.message) = 0
               \/ Len(req.message) > 4096) => ~Submit(a, req)]_vars

C19_Witness ==
    /\ response.op = "submit"
    /\ response.code = 422
    /\ store # {}
    /\ timedeltaBound

\* C20: at every instant at most one run of any job id is in flight, queued
\* on the event loop or suspended in the job function.
C20_OneAttemptPerJob == \A j \in JobIds : Instances(j) <= 1

C20_Witness ==
    /\ \E j \in sending : Instances(j) = 1 /\ calls[j] = 1
    /\ \E k \in QueuedIds : k \notin sending /\ Instances(k) = 1
    /\ store = {}

\* The code keeps no state of a job; this is the state its history shows.
\* A job is Scheduled from its 202 until the job function is invoked for it,
\* Running from then until the job function returns or raises.
JobState(j) ==
    IF issued[j] = 0 THEN "None"
    ELSE IF j \in removed THEN "Cancelled"
    ELSE IF Missed(j) THEN "Missed"
    ELSE IF result[j] = "delivered" THEN "Succeeded"
    ELSE IF result[j] # "none" THEN "Failed"
    ELSE IF calls[j] > 0 THEN "Running"
    ELSE "Scheduled"

LifecycleEdges ==
    {<<"None", "Scheduled">>, <<"Scheduled", "Running">>,
     <<"Running", "Succeeded">>, <<"Running", "Failed">>,
     <<"Scheduled", "Cancelled">>, <<"Scheduled", "Missed">>}

\* C21: a job changes its state only along the edges Scheduled to Running,
\* Running to Succeeded, Running to Failed, Scheduled to Cancelled and
\* Scheduled to Missed, after entering Scheduled with its 202; a run that
\* finds no token passes through Running within its step.  No state is left
\* once it is Succeeded, Failed, Cancelled or Missed.
C21_LifecycleAlongEdges ==
    /\ [][\A j \in JobIds :
          JobState(j)' # JobState(j) =>
              \/ <<JobState(j), JobState(j)'>> \in LifecycleEdges
              \/ /\ JobState(j) = "Scheduled"
                 /\ JobState(j)' = "Failed"
                 /\ calls'[j] = calls[j] + 1
                 /\ result'[j] = "no_token"]_vars
    /\ [][\A j \in JobIds :
             JobState(j) \in {"Succeeded", "Failed", "Cancelled", "Missed"} =>
                 /\ calls'[j] = calls[j]
                 /\ events'[j] = events[j]
                 /\ result'[j] = result[j]
                 /\ (j \in removed') = (j \in removed)
                 /\ Instances(j)' = 0]_vars

C21_Witness ==
    \E j, k \in JobIds :
        /\ JobState(j) = "Cancelled"
        /\ JobState(k) = "Missed"

\* What the job function logged for job j is a failure of its run.
RunFailed(j) == result[j] \in {"no_token", "rejected", "transport", "exception"}

\* C22: the step in which a run fails (no token, message rejected, transport
\* failure, or an exception) leaves the scheduler running, the store as it
\* is and the other queued and suspended runs in place; and after a failed
\* run every other stored job is still, while the scheduler runs, eventually
\* invoked, reported missed or removed by a cancel.
C22_FailureDoesNotStopDispatch ==
    /\ [][\A k \in JobIds :
             (RunFailed(k)' /\ ~RunFailed(k)) =>
                 /\ running'
                 /\ store' = store
                 /\ tasks' = tasks \/ (tasks # << >> /\ tasks' = Tail(tasks))
                 /\ sending' \ {k} = sending \ {k}]_vars
    /\ \A j \in JobIds :
         (running /\ j \in StoredIds(store) /\ \E k \in JobIds \ {j} : RunFailed(k))
             ~> (calls[j] > 0 \/ Missed(j) \/ j \in removed \/ ~running)

C22_Witness ==
    /\ running
    /\ \E k \in JobIds : result[k] = "exception" /\ events[k] = <<"ERROR">>
    /\ \E j \in JobIds : calls[j] = 1 /\ j \in sending /\ now = MaxTicks

\* The invocation of the job function for job j ends in this step: it
\* returns or raises after its await, or it returns without suspending.
InvocationEnds(j) ==
    /\ running'
    /\ j \notin sending'
    /\ j \in sending \/ calls'[j] > calls[j]

\* C23: the step in which an invocation of the job function ends, on any
\* path, adds exactly one event, EXECUTED or ERROR, to the events of its job;
\* an event is added to a job in no other step but the one that reports a
\* run missed without invoking; so a job never has more reports than
\* invocations, and an invocation that is neither suspended nor cut off by
\* the end of the process has its report.
C23_OneReportPerInvocation ==
    /\ [][\A j \in JobIds :
             /\ InvocationEnds(j) =>
                   \E e \in {"EXECUTED", "ERROR"} : events'[j] = Append(events[j], e)
             /\ events'[j] # events[j] =>
                   \/ InvocationEnds(j)
                   \/ events'[j] = Append(events[j], "MISSED") /\ calls'[j] = calls[j]]_vars
    /\ [](\A j \in JobIds :
             LET reports == Cardinality({i \in 1..Len(events[j]) : events[j][i] # "MISSED"})
             IN  /\ reports <= calls[j]
                 /\ (j \in sending \/ result[j] # "none") => reports + Instances(j) = calls[j])

C23_Witness ==
    \E j, k \in JobIds :
        /\ events[j] = <<"ERROR">> /\ result[j] = "exception" /\ calls[j] = 1
        /\ events[k] = <<"EXECUTED">> /\ result[k] = "no_token" /\ calls[k] = 1

\* C24 as claimed: a well-formed submit whose run date is at least the
\* margin of 2 seconds after now, the margin itself included, is accepted
\* unless add_job fails, and one whose run date is less than the margin after
\* now is answered with a client error.
C24_AcceptsFromMargin ==
    [][(response'.op = "submit" /\ response'.log # "Error adding job") =>
          \A a \in Accounts : \A req \in SubmitRequests(now) :
              (ScheduleRequestValid(req) /\ Submit(a, req)) =>
                  IF ToUtc(req.scheduled_at) - now >= LeadSeconds
                  THEN response'.code = 202
                  ELSE response'.code \in 400..499]_vars

\* C25: a cancel of a job that has left the store, because it was handed to
\* the executor (queued, being executed, or finished with any outcome),
\* reported missed or removed before, is answered 204 and changes nothing:
\* the run in flight stays in flight and what was reported stays reported.
C25_LateCancelNoEffect ==
    [][response'.op = "cancel" =>
          \A a \in Accounts : \A id \in JobIds :
              (/\ Cancel(a, id)
               /\ id \notin StoredIds(store)
               /\ \/ Instances(id) > 0
                  \/ calls[id] > 0
                  \/ events[id] # << >>
                  \/ id \in removed) =>
                  /\ response'.code = 204
                  /\ UNCHANGED <<store, tasks, sending, issued, calls, events,
                                 result, removed, sentWith>>]_vars

C25_Witness ==
    /\ response.op = "cancel"
    /\ response.code = 204
    /\ response.job_id \in sending
    /\ \E k \in JobIds : k # response.job_id /\ result[k] = "delivered"

\* C26: send_vk_message is called for a job with the token that the
\* accounts row of the job's account holds in the step that invokes the job
\* function, whatever the token was when the job was accepted.
C26_TokenAtExecution ==
    [][\A j \in JobIds :
          sentWith'[j] # sentWith[j] =>
              /\ tasks # << >>
              /\ Head(tasks).id = j
              /\ sentWith'[j] = vault[Head(tasks).account_id]
              /\ j \in sending']_vars

C26_Witness ==
    \E j \in JobIds :
        /\ sentWith[j] = "vk2"
        /\ result[j] = "delivered"

\* C28: every stored job has the run date and the account it was accepted
\* with, and no step (a list, a cancel by another account, a re-link, a stop
\* or a start of the process, a run of another job) changes a job that stays
\* stored: a job is in the store as it was or not at all.
C28_RunDateAndOwnerFixed ==
    /\ [](store \subseteq RelinkJobs)
    /\ [][\A job \in store :
             job \in store' \/ job.id \notin StoredIds(store')]_vars
    /\ [][response'.op \in {"link", "list"} => store' = store]_vars
    /\ [][running' # running => store' = store]_vars

C28_Witness ==
    /\ response.op = "cancel"
    /\ response.code = 500
    /\ dueAtStart # {}
    /\ \E a \in Accounts : vault[a] = "vk2"
    /\ store = RelinkJobs

\* The job function was invoked for job j and the process ended before it
\* returned: the job was Running when the process died.
LostRunning(j) == calls[j] = 1 /\ result[j] = "none" /\ j \notin sending

\* C27 as claimed: at a start of the process, a job that was Running when
\* the process died is in the store again, to be fired, or is recorded as
\* missed.
C27_RunningRecovered ==
    [][(~running /\ running') =>
          \A j \in JobIds :
              LostRunning(j) => (j \in StoredIds(store') \/ Missed(j)')]_vars

\* C27 amended: a job that was Running when the process died is lost: it is
\* not in the store, not queued and in no list, no event was or will be
\* reported for it, and it is never invoked again, whether or not its grace
\* time has passed.
C27_RunningIsLost ==
    /\ [](\A j \in JobIds :
             LostRunning(j) =>
                 /\ j \notin StoredIds(store)
                 /\ j \notin QueuedIds
                 /\ events[j] = << >>
                 /\ NotListed(store, j))
    /\ [][\A j \in JobIds : LostRunning(j) => LostRunning(j)']_vars

C27_Witness ==
    /\ running
    /\ response.op = "list"
    /\ \E j \in JobIds : LostRunning(j) /\ sentWith[j] # "None"
    /\ now <= MaxTicks

\* C29: a submit whose add_job raised is answered 500 without a job id and
\* leaves the store, the queue of the executor, the runs in flight and the
\* accepted ids as they were; and whatever is stored, queued, invoked or
\* reported is a job that a submit answered 202 for, so the job of a failed
\* submit is never fired.
C29_FailedAddLeavesNothing ==
    /\ [][(response'.op = "submit" /\ response'.log = "Error adding job") =>
             /\ response'.code = 500
             /\ response'.job_id = NoJob
             /\ UNCHANGED <<store, tasks, sending, issued, calls, events>>]_vars
    /\ [](\A j \in JobIds :
             (j \in StoredIds(store) \/ Instances(j) > 0 \/ calls[j] > 0
                 \/ events[j] # << >>) => issued[j] = 1)

C29_Witness ==
    /\ response.op = "submit"
    /\ response.code = 500
    /\ response.log = "Error adding job"
    /\ Cardinality(store) = 1
    /\ \E j \in JobIds : issued[j] = 0

\* C30: a submit whose generated job id is the id of a stored job is
\* answered 500 by the failure of add_job and leaves the store as it was;
\* and no submit changes or removes a stored job.
C30_DuplicateIdRejected ==
    /\ [][(response'.op = "submit" /\ response'.code \notin 400..499) =>
             \A a \in Accounts : \A req \in SubmitRequests(now) :
                 \A id \in StoredIds(store) :
                     SubmitWith(a, req, {id}) =>
                         /\ response'.code = 500
                         /\ response'.log = "Error adding job"
                         /\ store' = store]_vars
    /\ [][response'.op = "submit" => store \subseteq store']_vars

C30_Witness ==
    /\ response.op = "submit"
    /\ response.code = 500
    /\ response.log = "Error adding job"
    /\ StoredIds(store) = JobIds

\* ------------------------------------------- one call of the delivery client
\* send_vk_message as a function of its arguments and of what VK does: the
\* call starts with any of them and ends with what the function returns.
SendCalls ==
    {Call(token, recipient_id, message, up) :
        token \in {"", "vk1"}, recipient_id \in {<< >>, <<"1">>},
        message \in {Empty, Hello}, up \in Upstream}

SendInit ==
    /\ now = 0
    /\ timedeltaBound = FALSE
    /\ running = TRUE
    /\ store = {}
    /\ tasks = << >>
    /\ sending = {}
    /\ issued = [j \in JobIds |-> 0]
    /\ calls = [j \in JobIds |-> 0]
    /\ events = [j \in JobIds |-> << >>]
    /\ result = [j \in JobIds |-> "none"]
    /\ removed = {}
    /\ pendingAtStop = {}
    /\ dueAtStart = {}
    /\ vault = [a \in Accounts |-> "vk1"]
    /\ sentWith = [j \in DOMAIN issued |-> "None"]
    /\ accounts = LinkedAccounts
    /\ ProcessIs(Started)
    /\ vkCall \in SendCalls
    /\ response = NoResponse

SendEnds ==
    /\ ~vkCall.ended
    /\ vkCall.upstream.kind # "none"
    /\ vkCall' = [vkCall EXCEPT
                    !.ended = TRUE,
                    !.outcome = send_vk_message(vkCall.token, vkCall.recipient_id,
                                                vkCall.message, vkCall.upstream)]
    /\ UNCHANGED <<now, timedeltaBound, running, store, tasks, sending, issued,
                   calls, events, result, removed, pendingAtStop, dueAtStart,
                   vault, sentWith, accounts, response>>
    /\ UNCHANGED lifecycle

SendNext == SendEnds

SendSpec == SendInit /\ [][SendNext]_vars

JobExecutionEvent(code) ==
    [code |-> code, exception |-> (code = "ERROR"),
     has_scheduled_run_time |-> TRUE, is_log_record |-> FALSE]

\* job_listener: the branch taken for an event, named by what it logs.
job_listener(event) ==
    IF event.exception THEN "Error during execution"
    ELSE IF event.is_log_record THEN "nothing"
    ELSE IF event.has_scheduled_run_time THEN "MISSED execution"
    ELSE "Executed successfully"

\* What the listener should log for an event code.
MatchingLog(code) ==
    CASE code = "ERROR" -> "Error during execution"
      [] code = "MISSED" -> "MISSED execution"
      [] code = "EXECUTED" -> "Executed successfully"

\* C32: job_listener logs every event dispatched to it as the outcome that
\* matches its code: an event with an exception as an execution error, a
\* missed run as missed, a run that completed normally as executed
\* successfully (and not as missed).
C32_ListenerLogsMatchingOutcome ==
    \A j \in JobIds : \A i \in 1..Len(events[j]) :
        job_listener(JobExecutionEvent(events[j][i])) = MatchingLog(events[j][i])

\* ------------------------------------------------------ secrets rotated
\* The account a request with this client secret is answered for (0: none)
AuthenticatesAs(client_secret, table) ==
    LET auth == get_account_id_from_secret(SecretHeader(client_secret), table)
    IN  IF auth.status = 200 THEN auth.account_id ELSE 0

SecretOf(a, table) == (CHOOSE r \in table : r.id = a).client_secret

\* No two rows share a client secret, a VK user or an id.
OneAccountPerSecretAndUser ==
    \A r1, r2 \in accounts :
        (r1.client_secret = r2.client_secret \/ r1.vk_user_id = r2.vk_user_id
         \/ r1.id = r2.id) => r1 = r2

\* Every job that waits or runs belongs to an account whose present secret
\* authenticates as that account, which therefore lists it and may cancel it.
JobsFollowTheirAccount ==
    \A job \in store \cup {tasks[i] : i \in 1..Len(tasks)} :
        /\ \E r \in accounts : r.id = job.account_id
        /\ \A r \in accounts : r.id = job.account_id =>
              LET a == AuthenticatesAs(r.client_secret, accounts)
              IN  /\ a = job.account_id
                  /\ job \in store =>
                        /\ job \in OwnJobs(store, a)
                        /\ DeleteRaises(store, a, job.id) = "none"

\* A link answered 201 rotated the secret of one account and nothing else.
RelinkRotates ==
    (response'.op = "link" /\ response'.code = 201) =>
        /\ {r.id : r \in accounts'} = {r.id : r \in accounts}
        /\ \E a \in {r.id : r \in accounts} :
              /\ SecretOf(a, accounts') # SecretOf(a, accounts)
              /\ response'.body = <<SecretOf(a, accounts')>>
              /\ AuthenticatesAs(SecretOf(a, accounts), accounts') = 0
              /\ AuthenticatesAs(SecretOf(a, accounts'), accounts') = a
              /\ \A b \in {r.id : r \in accounts} \ {a} :
                    SecretOf(b, accounts') = SecretOf(b, accounts)
        /\ store' = store /\ tasks' = tasks /\ sending' = sending

\* C33: linking again for a VK user that has an account gives the account
\* a new client secret and keeps its id: the old secret authenticates no
\* more, the new one authenticates as the same account, and the jobs of the
\* account stay as they are, listed and cancellable under the new secret
\* and fired; at every state no two accounts share a client secret or a
\* VK user.
C33_RelinkRotatesSecret ==
    /\ [](OneAccountPerSecretAndUser /\ JobsFollowTheirAccount)
    /\ [][RelinkRotates]_vars

\* The first account was linked again, and the job it had scheduled under
\* its first secret is in the list it is answered with.
C33_Witness ==
    /\ SecretOf(1, accounts) # SecretText[1]
    /\ response.op = "list" /\ response.code = 200
    /\ 1 \in ListedIds(response.body)
    /\ \E job \in AuthJobs : job.id = 1 /\ job \in store

\* ------------------------------------------------ requests and secrets
Blanks == {<< >>, <<" ">>, <<" ", " ">>}
\* The headers that present a client secret: the scheme, the secret, blanks
\* between them and possibly around them.
Credentials ==
    [i \in 1..Len(SecretText) |->
        {Header(pre \o <<"Secret">> \o <<" ">> \o mid \o <<SecretText[i]>> \o post) :
            pre \in Blanks, mid \in Blanks, post \in Blanks}]
\* The secret each header of a request presents (0: none)
Presented ==
    [header \in Headers |->
        IF \E i \in 1..Len(SecretText) : header \in Credentials[i]
        THEN CHOOSE i \in 1..Len(SecretText) : header \in Credentials[i]
        ELSE 0]

\* The header is missing, malformed, or carries the secret of no account.
NoCredential(header) ==
    \A r \in accounts : Presented[header] # SecretIndex(r.client_secret)

\* The step answered 401 and changed nothing else.
RejectedUnchanged ==
    /\ response'.code = 401
    /\ response'.body = << >>
    /\ response'.job_id = NoJob
    /\ UNCHANGED <<store, tasks, sending, issued, calls, events, result, removed,
                   vault, accounts>>

SchedulerRunning == scheduler # NoScheduler /\ instances[scheduler].running

\* C35: while get_scheduler() is None or not running, a request to schedule
\* is never answered 202 and creates no job: a body that fails validation is
\* answered 422 as always, every other request is answered 500 "Scheduler
\* service is unavailable"; and a process that is not up answers nothing.
C35_NoSchedulerNoJob ==
    [][(response'.op = "submit" /\ ~SchedulerRunning) =>
          /\ serving
          /\ response'.code # 202
          /\ response'.job_id = NoJob
          /\ store' = store /\ issued' = issued
          /\ \/ /\ response'.code = 500
                /\ response'.log = "Scheduler service is unavailable"
             \/ /\ response'.code = 422
                /\ \A a \in Accounts : \A req \in SubmitRequests(now) :
                      Submit(a, req) => ~ScheduleRequestValid(req)
      ]_vars

\* The start of the scheduler failed, the application serves, and a valid
\* request to schedule was answered 500.
C35_Witness ==
    /\ serving /\ ~running
    /\ scheduler # NoScheduler /\ ~instances[scheduler].running
    /\ response.op = "submit" /\ response.code = 500
    /\ response.log = "Scheduler service is unavailable"
    /\ store = {}

\* ---------------------------------------------------- one scheduler
RunningInstances == {i \in 1..Len(instances) : instances[i].running}

\* C36: at most one scheduler is running at any time, it is the one
\* get_scheduler returns, and every scheduler has the listener once;
\* init_scheduler called while a scheduler runs returns that scheduler and
\* makes no other; get_scheduler returns what the latest call of
\* init_scheduler returned, and None before the first call.
C36_OneScheduler ==
    /\ [](/\ Cardinality(RunningInstances) <= 1
          /\ RunningInstances \subseteq {get_scheduler(scheduler)}
          /\ \A i \in 1..Len(instances) : instances[i].listeners = 1
          /\ running = SchedulerRunning
          /\ (instances = << >>) = (get_scheduler(scheduler) = NoScheduler))
    /\ [][IF Len(sched') > Len(sched)
          THEN LET returned == sched'[Len(sched')]
               IN  /\ get_scheduler(scheduler') = returned
                   /\ SchedulerRunning =>
                         /\ returned = scheduler
                         /\ Len(instances') = Len(instances)
                   /\ ~SchedulerRunning =>
                         /\ returned = Len(instances) + 1
                         /\ Len(instances') = Len(instances) + 1
          ELSE scheduler' = scheduler]_vars

\* A lifespan was entered while the second scheduler of the process was
\* running and holds that scheduler, as the lifespan that started it.
C36_Witness ==
    /\ Len(instances) = 2
    /\ instances[2].running
    /\ Len(sched) >= 2
    /\ sched[Len(sched)] = 2 /\ sched[Len(sched) - 1] = 2

====
